---- MODULE Spec2Model ----
(***************************************************************************)
(* Gridworld MDP solvers: value iteration (src/main.py) and policy         *)
(* iteration (src/policy.py) on the 3x3 grid with terminal state (0,2).    *)
(*                                                                         *)
(* Numbers.  The Python code computes in binary floating point.  Here a    *)
(* real number x is the decimal fixed-point pair <<h, l>> standing for     *)
(* (h * Base + l) / Scale with 0 <= l < Base, Scale = 10^9, so that every  *)
(* intermediate fits TLC's 32-bit integers.  Sums and differences  *)
(* are exact; each product with a probability (tenths) or with the         *)
(* discount (hundredths) is rounded to the nearest unit 10^-9, as each     *)
(* float product is rounded to the nearest representable value.            *)
(*                                                                         *)
(* The two files hold identical copies of grid_size, states, actions,      *)
(* discount, action_effects, perpendiculars and in_grid, and build the     *)
(* same rewards table and terminal_states list; each is defined once here. *)
(* get_next_states, which the two files also copy, is defined per file.    *)
(***************************************************************************)
EXTENDS Integers, Sequences, FiniteSets, TLC

(* ------------------------------ bounds -------------------------------- *)

\* The initial policies of policy_iteration that are explored: every policy
\* that gives all nine states one common action, except possibly one of the
\* first NumVar states (row-major), which may hold any action.
NumVar == 2

(* ------------------------- fixed-point numbers ------------------------ *)

Base == 10^6
UnitsPerOne == 10^3          \* Scale \div Base: the integer n is <<n * 10^3, 0>>

\* The operations are functions: like a Python call, an application first
\* evaluates its arguments.
Num == Int \X Int
Zero == <<0, 0>>
Norm[h \in Int, l \in Int] == <<h + (l \div Base), l % Base>>
FromInt[n \in Int] == <<n * UnitsPerOne, 0>>
\* n millionths
FromMicro[n \in Int] == <<n \div UnitsPerOne, (n % UnitsPerOne) * UnitsPerOne>>
FAdd[x \in Num, y \in Num] == Norm[x[1] + y[1], x[2] + y[2]]
FSub[x \in Num, y \in Num] == Norm[x[1] - y[1], x[2] - y[2]]
FLess[x \in Num, y \in Num] == x[1] < y[1] \/ (x[1] = y[1] /\ x[2] < y[2])
FAbs[x \in Num] == IF x[1] < 0 THEN Norm[-x[1], -x[2]] ELSE x
\* m / den rounded down, for 0 < den <= 100
FDiv[m \in Num, den \in Nat] == <<m[1] \div den, ((m[1] % den) * Base + m[2]) \div den>>
\* x * num / den rounded to the nearest unit (half up); num <= 99, den <= 100.
FMul[num \in Nat, den \in Nat, x \in Num] ==
    FDiv[Norm[num * x[1], num * x[2] + (den \div 2)], den]
\* float('-inf'): below every number.
NegInf == <<>>
FGreater[x \in Num, m \in Num \cup {NegInf}] == m = NegInf \/ FLess[m, x]

(* ------------------------------ the grid ------------------------------ *)

grid_size == 3
states == [k \in 1..(grid_size * grid_size) |->
              <<(k - 1) \div grid_size, (k - 1) % grid_size>>]
StateSet == {states[k] : k \in DOMAIN states}
actions == <<"U", "D", "L", "R">>
ActionSet == {actions[k] : k \in DOMAIN actions}
discount == 99               \* 0.99, counted in hundredths
DiscountDen == 100
ProbDen == 10                \* probabilities are counted in tenths

\* action_effects with the row direction of U and D exchanged.
action_effects_flipped ==
    [U |-> <<1, 0>>, D |-> <<-1, 0>>, L |-> <<0, -1>>, R |-> <<0, 1>>]

action_effects == [U |-> <<-1, 0>>, D |-> <<1, 0>>, L |-> <<0, -1>>, R |-> <<0, 1>>]
perpendiculars == [U |-> <<"L", "R">>, D |-> <<"L", "R">>,
                   L |-> <<"U", "D">>, R |-> <<"U", "D">>]

in_grid(x, y) == 0 <= x /\ x < grid_size /\ 0 <= y /\ y < grid_size

\* One outcome of get_next_states: the state (ni, nj) with probability prob
\* tenths, resolved to the originating state when it lies outside the grid.
Resolve(state, ni, nj, prob) ==
    IF in_grid(ni, nj) THEN <<(<<ni, nj>>), prob>> ELSE <<state, prob>>

Outcome(state, dir, prob) ==
    Resolve(state, state[1] + action_effects[dir][1],
                   state[2] + action_effects[dir][2], prob)

\* get_next_states without the in_grid test: a move off the grid is kept.
Step(state, dir) ==
    <<state[1] + action_effects[dir][1], state[2] + action_effects[dir][2]>>
get_next_states_unclipped(state, action) ==
    <<<<Step(state, action), 8>>,
      <<Step(state, perpendiculars[action][1]), 1>>,
      <<Step(state, perpendiculars[action][2]), 1>>>>

\* src/main.py get_next_states
get_next_states(state, action) ==
    <<Outcome(state, action, 8)>> \o
    [k \in DOMAIN perpendiculars[action] |->
        Outcome(state, perpendiculars[action][k], 1)]

\* src/policy.py get_next_states (that file's own copy)
policy_get_next_states(state, action) ==
    <<Outcome(state, action, 8)>> \o
    [k \in DOMAIN perpendiculars[action] |->
        Outcome(state, perpendiculars[action][k], 1)]

\* ord() of the action names, the order sorted() compares them by.
ord == [U |-> 85, D |-> 68, L |-> 76, R |-> 82]

RECURSIVE Insert(_, _)
Insert(a, seq) ==
    IF seq = <<>> THEN <<a>>
    ELSE IF ord[a] < ord[Head(seq)] THEN <<a>> \o seq
    ELSE <<Head(seq)>> \o Insert(a, Tail(seq))

\* The list as it is, not sorted.
unsorted(seq) == seq

RECURSIVE sorted(_)
sorted(seq) == IF seq = <<>> THEN <<>> ELSE Insert(Head(seq), sorted(Tail(seq)))

\* sorted(actions), the order both solvers try the actions in
sorted_actions == sorted(actions)

\* No state is terminal.
no_terminal_states == {}

terminal_states == {<<0, 2>>}

\* The rewards table without the special case of the start state.
rewards_uniform(r) ==
    [s \in StateSet |-> IF s = <<0, 2>> THEN FromInt[10] ELSE FromInt[-1]]

\* The rewards table both solvers build from r (r counted in millionths).
rewards(r) ==
    [s \in StateSet |-> IF s = <<0, 0>> THEN FromMicro[r]
                        ELSE IF s = <<0, 2>> THEN FromInt[10] ELSE FromInt[-1]]

\* The r values both scripts run, in their order; the same in millionths.
RewardInputs == <<100, 3, 0, -3>>
MicroPerOne == 10^6
ScriptInputs == [k \in DOMAIN RewardInputs |-> RewardInputs[k] * MicroPerOne]

\* What get_next_states returns is a list of (state, probability in tenths).
Outcomes == StateSet \X (0..ProbDen)
\* The tables V and new_V.
ValueTables == [StateSet -> Num]

\* <<max_val, best_action>>: from <<float('-inf'), None>> on.
Best == (Num \cup {NegInf}) \X (ActionSet \cup {"None"})

\* A threshold no delta is below.
threshold_zero == <<0, 0>>
\* 1e-2
theta_loose == <<10, 0>>

\* 1e-4, the default of threshold (value_iteration) and theta (policy_evaluation).
threshold == <<0, 100000>>
theta == <<0, 100000>>

(* --------------------------- value iteration -------------------------- *)

\* total after the inner loop over the outcomes outs of get_next_states
vi_total[outs \in Seq(Outcomes), rew \in Num, V \in ValueTables] ==
    IF outs = <<>> THEN Zero
    ELSE FAdd[vi_total[SubSeq(outs, 1, Len(outs) - 1), rew, V],
              FMul[outs[Len(outs)][2], ProbDen,
                   FAdd[rew, FMul[discount, DiscountDen, V[outs[Len(outs)][1]]]]]]

vi_Q(V, rew, state, action) ==
    vi_total[get_next_states(state, action), rew[state], V]

\* if total > max_val: max_val = total; best_action = action
vi_update[prev \in Best, total \in Num, action \in ActionSet] ==
    IF FGreater[total, prev[1]] THEN <<total, action>> ELSE prev

\* <<max_val, best_action>> after the first k actions of order
RECURSIVE vi_best(_, _, _, _, _)
vi_best(order, k, V, rew, state) ==
    IF k = 0 THEN <<NegInf, "None">>
    ELSE vi_update[vi_best(order, k - 1, V, rew, state),
                   vi_Q(V, rew, state, order[k]), order[k]]

\* new_V after the for loop of one sweep: V.copy() with every non-terminal
\* state's entry replaced by its max_val
vi_new_V(V, rew) ==
    [s \in StateSet |->
        IF s \in terminal_states THEN V[s]
        ELSE vi_best(sorted_actions, Len(sorted_actions), V, rew, s)[1]]

\* policy after the for loop of one sweep
vi_new_policy(pol, V, rew) ==
    [s \in DOMAIN pol \cup (StateSet \ terminal_states) |->
        IF s \in terminal_states THEN pol[s]
        ELSE vi_best(sorted_actions, Len(sorted_actions), V, rew, s)[2]]

\* delta after the for loop of one sweep: from 0, the max with every
\* non-terminal state's abs(V[state] - new_V[state])
FMaxOf(S) == CHOOSE d \in S : \A e \in S : ~FLess[d, e]
sweep_delta(V, new_V) ==
    FMaxOf({Zero} \cup {FAbs[FSub[V[s], new_V[s]]] : s \in StateSet \ terminal_states})

(* -------------------------- policy iteration -------------------------- *)

\* value after the inner loop over the outcomes outs of get_next_states
pe_value[outs \in Seq(Outcomes), rew \in Num, V \in ValueTables] ==
    IF outs = <<>> THEN Zero
    ELSE FAdd[pe_value[SubSeq(outs, 1, Len(outs) - 1), rew, V],
              FMul[outs[Len(outs)][2], ProbDen,
                   FAdd[rew, FMul[discount, DiscountDen, V[outs[Len(outs)][1]]]]]]

\* the value policy_evaluation and policy_improvement compute for (state, action)
pi_Q(V, rew, state, action) ==
    pe_value[policy_get_next_states(state, action), rew[state], V]

\* new_V after the for loop of one sweep of policy_evaluation
pe_new_V(pol, rew, V) ==
    [s \in StateSet |->
        IF s \in terminal_states THEN V[s] ELSE pi_Q(V, rew, s, pol[s])]

\* if value > best_value: best_value = value; best_action = action
pi_update[prev \in Best, value \in Num, action \in ActionSet] ==
    IF FGreater[value, prev[1]] THEN <<value, action>> ELSE prev

\* <<best_value, best_action>> after the first k actions of order
RECURSIVE pi_best(_, _, _, _, _)
pi_best(order, k, V, rew, state) ==
    IF k = 0 THEN <<NegInf, "None">>
    ELSE pi_update[pi_best(order, k - 1, V, rew, state),
                   pi_Q(V, rew, state, order[k]), order[k]]

\* the policy policy_improvement returns: a key for every non-terminal state
policy_improvement(V, rew) ==
    [s \in StateSet \ terminal_states |->
        pi_best(sorted_actions, Len(sorted_actions), V, rew, s)[2]]

\* The initial policies explored, of {s: random.choice(actions) for s in states}.
InitialPolicies ==
    {[s \in StateSet |-> IF s = states[k] THEN a ELSE b] :
        a \in ActionSet, b \in ActionSet, k \in 1..NumVar}

(* ------------------------------- state -------------------------------- *)

\* inputs: the r values the scripts loop over, in millionths.
\* pc: the position of the run.  First src/main.py's script calls
\* value_iteration(r) for each r of RewardInputs, then src/policy.py's script
\* calls policy_iteration(r) for each r, times times in a row (run counts them).
\* V, new_V, policy, new_policy, is_policy_stable: the solvers' variables.
\* vi_out, pi_out: what the calls returned so far, by r.
\* query, outcomes: a call get_next_states(state, action) of one of the two
\* files and what it returned (the transition model on its own).
VARIABLES inputs, pc, r_idx, times, run, V, new_V, policy, new_policy, is_policy_stable,
          vi_out, pi_out, query, outcomes

vars == <<inputs, pc, r_idx, times, run, V, new_V, policy, new_policy, is_policy_stable,
          vi_out, pi_out, query, outcomes>>

Fresh ==
    /\ r_idx = 1
    /\ V = <<>>
    /\ new_V = <<>>
    /\ policy = <<>>
    /\ new_policy = <<>>
    /\ is_policy_stable = FALSE
    /\ vi_out = <<>>
    /\ pi_out = <<>>

\* Both scripts, each call of policy_iteration made twice.
Init == inputs = ScriptInputs /\ pc = "main" /\ times = 2 /\ run = 1 /\ Fresh /\ query = <<>> /\ outcomes = <<>>

\* Both scripts as they are.
InitOnce == inputs = ScriptInputs /\ pc = "main" /\ times = 1 /\ run = 1 /\ Fresh /\ query = <<>> /\ outcomes = <<>>

r == inputs[r_idx]

\* main.py: for r in [100, 3, 0, -3]: value_iteration(r), up to its loop
value_iteration_call ==
    /\ pc = "main"
    /\ r_idx <= Len(inputs)
    /\ V' = [s \in StateSet |-> Zero]
    /\ policy' = [s \in StateSet \ terminal_states |-> "U"]
    /\ pc' = "vi_sweep"
    /\ UNCHANGED <<inputs, r_idx, times, run, new_V, new_policy, is_policy_stable, vi_out, pi_out,
                   query, outcomes>>

\* value_iteration: delta = 0, new_V = V.copy(), the for loop over states
vi_sweep ==
    /\ pc = "vi_sweep"
    /\ new_V' = vi_new_V(V, rewards(r))
    /\ policy' = vi_new_policy(policy, V, rewards(r))
    /\ pc' = "vi_test"
    /\ UNCHANGED <<inputs, r_idx, times, run, V, new_policy, is_policy_stable, vi_out, pi_out,
                   query, outcomes>>

\* value_iteration: V = new_V; if delta < threshold: break
vi_test ==
    /\ pc = "vi_test"
    /\ V' = new_V
    /\ pc' = IF FLess[sweep_delta(V, new_V), threshold] THEN "vi_return" ELSE "vi_sweep"
    /\ UNCHANGED <<inputs, r_idx, times, run, new_V, policy, new_policy, is_policy_stable,
                   vi_out, pi_out, query, outcomes>>

\* return V, policy; the script goes on to the next r
value_iteration_return ==
    /\ pc = "vi_return"
    /\ vi_out' = (r :> [V |-> V, policy |-> policy]) @@ vi_out
    /\ IF r_idx < Len(inputs)
       THEN pc' = "main" /\ r_idx' = r_idx + 1
       ELSE pc' = "policy_main" /\ r_idx' = 1
    /\ UNCHANGED <<inputs, times, run, V, new_V, policy, new_policy, is_policy_stable, pi_out,
                   query, outcomes>>

\* policy.py: for r in [100, 3, 0, -3]: policy_iteration(r), up to its loop
policy_iteration_call ==
    /\ pc = "policy_main"
    /\ r_idx <= Len(inputs)
    /\ \E p \in InitialPolicies : policy' = p
    /\ is_policy_stable' = FALSE
    /\ pc' = "pi_loop"
    /\ UNCHANGED <<inputs, r_idx, times, run, V, new_V, new_policy, vi_out, pi_out, query, outcomes>>

\* while not is_policy_stable: policy_evaluation(...), up to its loop
policy_evaluation_call ==
    /\ pc = "pi_loop"
    /\ ~is_policy_stable
    /\ V' = [s \in StateSet |-> Zero]
    /\ pc' = "pe_sweep"
    /\ UNCHANGED <<inputs, r_idx, times, run, new_V, policy, new_policy, is_policy_stable,
                   vi_out, pi_out, query, outcomes>>

\* policy_evaluation: delta = 0, new_V = V.copy(), the for loop over states
pe_sweep ==
    /\ pc = "pe_sweep"
    /\ new_V' = pe_new_V(policy, rewards(r), V)
    /\ pc' = "pe_test"
    /\ UNCHANGED <<inputs, r_idx, times, run, V, policy, new_policy, is_policy_stable,
                   vi_out, pi_out, query, outcomes>>

\* policy_evaluation: V = new_V; if delta < theta: break, return V
pe_test ==
    /\ pc = "pe_test"
    /\ V' = new_V
    /\ pc' = IF FLess[sweep_delta(V, new_V), theta] THEN "pi_improve" ELSE "pe_sweep"
    /\ UNCHANGED <<inputs, r_idx, times, run, new_V, policy, new_policy, is_policy_stable,
                   vi_out, pi_out, query, outcomes>>

\* new_policy = policy_improvement(V, rewards, terminal_states)
pi_improve ==
    /\ pc = "pi_improve"
    /\ new_policy' = policy_improvement(V, rewards(r))
    /\ pc' = "pi_stable"
    /\ UNCHANGED <<inputs, r_idx, times, run, V, new_V, policy, is_policy_stable, vi_out, pi_out,
                   query, outcomes>>

\* is_policy_stable = (policy == new_policy); policy = new_policy
pi_stable ==
    /\ pc = "pi_stable"
    /\ is_policy_stable' = (policy = new_policy)
    /\ policy' = new_policy
    /\ pc' = "pi_loop"
    /\ UNCHANGED <<inputs, r_idx, times, run, V, new_V, new_policy, vi_out, pi_out, query, outcomes>>

\* the loop ends; return V, policy; the script calls again on the same r
\* (run < times), or goes on
policy_iteration_return ==
    /\ pc = "pi_loop"
    /\ is_policy_stable
    /\ pi_out' = IF run = 1 THEN (r :> [V |-> V, policy |-> policy]) @@ pi_out
                 ELSE pi_out
    /\ IF run < times THEN run' = run + 1 /\ r_idx' = r_idx /\ pc' = "policy_main"
       ELSE /\ run' = 1
            /\ r_idx' = r_idx + 1
            /\ pc' = IF r_idx < Len(inputs) THEN "policy_main" ELSE "exit"
    /\ UNCHANGED <<inputs, times, V, new_V, policy, new_policy, is_policy_stable, vi_out,
                   query, outcomes>>

Next ==
    \/ value_iteration_call
    \/ vi_sweep
    \/ vi_test
    \/ value_iteration_return
    \/ policy_iteration_call
    \/ policy_evaluation_call
    \/ pe_sweep
    \/ pe_test
    \/ pi_improve
    \/ pi_stable
    \/ policy_iteration_return

Spec == Init /\ [][Next]_vars

\* The scripts are sequential programs: a step that can be taken is taken.
FairSpec == InitOnce /\ [][Next]_vars /\ WF_vars(Next)

(* ------------------- the solvers on other rewards -------------------- *)

\* Start-state rewards, in millionths, that the functions are also called on:
\* two neighbours, and one near a reward at which the best action at (0,0)
\* changes.
RewardSamples == {-297528, -297527, -32576}

\* The scripts' loops over two of these rewards, the smaller first, each call
\* of policy_iteration made twice.
InitSamples ==
    /\ inputs \in {<<a, b>> : a \in RewardSamples, b \in RewardSamples}
    /\ inputs[1] < inputs[2]
    /\ pc = "main" /\ times = 2 /\ run = 1 /\ Fresh /\ query = <<>> /\ outcomes = <<>>

SpecSamples == InitSamples /\ [][Next]_vars

(* ------------------- the transition model on its own ------------------ *)

Files == {"main", "policy"}

InitOutcomes ==
    /\ inputs = ScriptInputs
    /\ pc = "query"
    /\ times = 1
    /\ run = 1
    /\ Fresh
    /\ query \in Files \X StateSet \X ActionSet
    /\ outcomes = <<>>

get_next_states_call ==
    /\ pc = "query"
    /\ outcomes' = IF query[1] = "main"
                   THEN get_next_states(query[2], query[3])
                   ELSE policy_get_next_states(query[2], query[3])
    /\ pc' = "answered"
    /\ UNCHANGED <<inputs, r_idx, times, run, V, new_V, policy, new_policy, is_policy_stable,
                   vi_out, pi_out, query>>

NextOutcomes == get_next_states_call

SpecOutcomes == InitOutcomes /\ [][NextOutcomes]_vars

(* ------------------------------ properties ---------------------------- *)

\* What the claims call a move: one row up, down, one column left, right.
Moved(s, d) ==
    CASE d = "U" -> <<s[1] - 1, s[2]>>
      [] d = "D" -> <<s[1] + 1, s[2]>>
      [] d = "L" -> <<s[1], s[2] - 1>>
      [] d = "R" -> <<s[1], s[2] + 1>>

Grid == (0..2) \X (0..2)
Goal == <<0, 2>>
Start == <<0, 0>>
\* where a move in direction d from s ends: s itself when it would leave the grid
Lands(s, d) == IF Moved(s, d) \in Grid THEN Moved(s, d) ELSE s
Across(a) == IF a \in {"U", "D"} THEN {"L", "R"} ELSE {"U", "D"}
Returning == pc = "pi_loop" /\ is_policy_stable
\* the start-state reward n as the solvers' results are recorded under
R(n) == n * 10^6
AllFour == {R(100), R(3), R(0), R(-3)}
Result == [V |-> V, policy |-> policy]

\* C2: get_next_states(s, a) returns exactly three outcomes: the primary
\* direction with probability 0.8, then the two perpendicular directions with
\* probability 0.1 each (summing to 1); every resulting state is in the grid
\* and equals s exactly when the move would leave the grid.
C2_Outcomes ==
    pc = "answered" =>
        /\ Len(outcomes) = 3
        /\ outcomes[1] = <<Lands(query[2], query[3]), 8>>
        /\ \E d1, d2 \in Across(query[3]) :
              /\ d1 # d2
              /\ outcomes[2] = <<Lands(query[2], d1), 1>>
              /\ outcomes[3] = <<Lands(query[2], d2), 1>>
              /\ (outcomes[2][1] = query[2]) <=> (Moved(query[2], d1) \notin Grid)
              /\ (outcomes[3][1] = query[2]) <=> (Moved(query[2], d2) \notin Grid)
        /\ outcomes[1][2] + outcomes[2][2] + outcomes[3][2] = 10
        /\ \A k \in 1..3 : outcomes[k][1] \in Grid
        /\ (outcomes[1][1] = query[2]) <=> (Moved(query[2], query[3]) \notin Grid)

\* C2 witness: at the corner (0,0), action U, the primary outcome is the
\* self-loop ((0,0), 0.8), in both files.
C2_Witness ==
    /\ pc = "answered"
    /\ query[2] = <<0, 0>> /\ query[3] = "U" /\ query[1] = "policy"
    /\ outcomes[1] = <<(<<0, 0>>), 8>>

\* Two results agree: the same action at every non-terminal state, and values
\* that differ by less than 1e-4 at every state.
Close(x, y) == FLess[FAbs[FSub[x, y]], <<0, 100000>>]
Agree(a, b) ==
    /\ \A s \in Grid \ {Goal} : a.policy[s] = b.policy[s]
    /\ \A s \in Grid : Close(a.V[s], b.V[s])

\* C1: for every r of {100, 3, 0, -3} and every initial policy, what
\* policy_iteration(r) returns agrees with what value_iteration(r) returned:
\* the same policy on the 8 non-terminal states, values closer than 1e-4.
C1_SolversAgree == Returning => Agree(vi_out[r], Result)

\* C1 witness: policy_iteration(-3) returns a value table that is not
\* identical to value_iteration(-3)'s.
C1_Witness == Returning /\ r = R(-3) /\ V # vi_out[r].V

\* C3: the value of the terminal state (0,2) is exactly 0 after every sweep of
\* both solvers and in every returned table, and (0,2) is no key of a returned
\* policy.
C3_TerminalFrozen ==
    /\ V # <<>> => V[Goal] = Zero
    /\ new_V # <<>> => new_V[Goal] = Zero
    /\ pc = "vi_return" => Goal \notin DOMAIN policy
    /\ Returning => Goal \notin DOMAIN policy
    /\ \A x \in DOMAIN vi_out :
          vi_out[x].V[Goal] = Zero /\ Goal \notin DOMAIN vi_out[x].policy
    /\ \A x \in DOMAIN pi_out :
          pi_out[x].V[Goal] = Zero /\ Goal \notin DOMAIN pi_out[x].policy

\* C3 witness: policy_iteration has returned a table whose other values are
\* not 0, from a run that began with (0,2) among its policy's keys.
C3_Witness ==
    /\ DOMAIN pi_out = AllFour
    /\ \A x \in DOMAIN pi_out : \A s \in Grid \ {Goal} : pi_out[x].V[s] # Zero
    /\ pc = "pi_loop" /\ ~is_policy_stable /\ Goal \in DOMAIN policy

\* C4: for a fixed r, policy_iteration returns the same value table and the
\* same policy whatever the initial policy: the second call on r (from any
\* initial policy) returns exactly what the first call (from any) returned.
\* (It holds of the scripts' four rewards; for r = -0.032576 the call returns
\* U or R at (0,0), with different tables, depending on the initial policy.)
C4_Deterministic ==
    (Returning /\ run = 2) => (V = pi_out[r].V /\ policy = pi_out[r].policy)

\* C5: both solvers terminate for every r, from every initial policy: every
\* sweep loop and policy_iteration's outer loop end, and the scripts exit.
C5_Terminates == <>(pc = "exit")

\* C5 witness: the scripts have exited, all eight calls returned.
C5_Witness ==
    pc = "exit" /\ DOMAIN vi_out = AllFour /\ DOMAIN pi_out = AllFour

\* C6: for any two start-state rewards r1 <= r2 the value of (0,0) returned
\* for r2 is not less than the one returned for r1 by the same solver.
\* (It holds of the scripts' four rewards; it fails for -0.297528 and
\* -0.297527, where value_iteration stops after 18 and after 19 sweeps.)
C6_Monotone ==
    /\ \A a, b \in DOMAIN vi_out :
          a <= b => ~FLess[vi_out[b].V[Start], vi_out[a].V[Start]]
    /\ \A a, b \in DOMAIN pi_out :
          a <= b => ~FLess[pi_out[b].V[Start], pi_out[a].V[Start]]

\* C7: for r = 100 each solver's returned policy holds at (0,0) an action
\* whose primary outcome is the self-loop: U or L, never D or R.
SelfLoopAtStart(p) == p[Start] \in {"U", "L"} /\ Lands(Start, p[Start]) = Start
C7_StaysAtStart ==
    /\ R(100) \in DOMAIN vi_out => SelfLoopAtStart(vi_out[R(100)].policy)
    /\ R(100) \in DOMAIN pi_out => SelfLoopAtStart(pi_out[R(100)].policy)
    /\ (Returning /\ r = R(100)) => SelfLoopAtStart(policy)

\* C7 witness: both solvers returned for r = 100.
C7_Witness == R(100) \in DOMAIN vi_out /\ R(100) \in DOMAIN pi_out

\* Following the primary outcome of the policy's action from s: every step
\* goes to a state not visited before whose value is strictly greater, until
\* the terminal state.
RECURSIVE Climbs(_, _, _)
Climbs(res, s, seen) ==
    \/ s = Goal
    \/ /\ Lands(s, res.policy[s]) \notin seen \cup {s}
       /\ FLess[res.V[s], res.V[Lands(s, res.policy[s])]]
       /\ Climbs(res, Lands(s, res.policy[s]), seen \cup {s})

ImprovingPaths(res) == \A s \in Grid \ {Goal} : Climbs(res, s, {})

\* C8: for r = -3, in each solver's returned policy the primary outcomes lead
\* from every non-terminal state to (0,2) without revisiting a state, each
\* step to a state of strictly greater returned value.
C8_PathsToGoal ==
    /\ R(-3) \in DOMAIN vi_out => ImprovingPaths(vi_out[R(-3)])
    /\ R(-3) \in DOMAIN pi_out => ImprovingPaths(pi_out[R(-3)])
    /\ (Returning /\ r = R(-3)) => ImprovingPaths(Result)

\* C8 witness: both solvers returned for r = -3, with a path of four steps
\* from (2,0).
C8_Witness ==
    /\ R(-3) \in DOMAIN vi_out /\ R(-3) \in DOMAIN pi_out
    /\ pi_out[R(-3)].policy[<<2, 0>>] = "R" /\ pi_out[R(-3)].policy[<<2, 2>>] = "U"

\* C9: policy_iteration stops at the first round, the very first included,
\* whose improved policy holds at every non-terminal state the action of the
\* policy that round evaluated, and it stops at no other round: the round's
\* is_policy_stable is true exactly when no non-terminal state's action changed.
\* (The code compares the dictionaries, and the initial policy has the key
\* (0,2) that no improved policy has: the first round never stops the loop.)
C9_StopsWhenUnchanged ==
    [][pc = "pi_stable" =>
         (is_policy_stable' <=> \A s \in Grid \ {Goal} : policy'[s] = policy[s])]_vars

\* The first action of D, L, R, U that attains the greatest of q.
Alphabetical == <<"D", "L", "R", "U">>
Greatest(q, a) == \A b \in DOMAIN q : ~FLess[q[a], q[b]]
FirstGreatest(q) ==
    Alphabetical[CHOOSE k \in 1..4 :
        /\ Greatest(q, Alphabetical[k])
        /\ \A j \in 1..(k - 1) : ~Greatest(q, Alphabetical[j])]

\* C10: value iteration's backup and policy_improvement both select, at every
\* non-terminal state, the first action in the order D, L, R, U among those
\* that attain the maximal Q(s, a) computed from the current value table.
C10_TieBreak ==
    [][/\ pc = "vi_sweep" =>
            \A s \in Grid \ {Goal} :
               policy'[s] = FirstGreatest([a \in ActionSet |-> vi_Q(V, rewards(r), s, a)])
       /\ pc = "pi_improve" =>
            \A s \in Grid \ {Goal} :
               new_policy'[s] = FirstGreatest([a \in ActionSet |-> pi_Q(V, rewards(r), s, a)])
      ]_vars

\* C10 witness: a backup over the all-zero table, where all four actions tie
\* at every state, has selected D everywhere.
C10_Witness ==
    /\ pc = "vi_sweep"
    /\ policy = [s \in Grid \ {Goal} |-> "D"]
    /\ V = [s \in Grid |-> IF s = Goal THEN Zero ELSE rewards(r)[s]]
====
